---- MODULE Spec2Model ----
(***************************************************************************)
(* embedded-hal-timer: the Timer / Alarm traits (src/src/lib.rs), the      *)
(* one-pulse driver for a 16-bit STM32 timer (src/src/impl_embassy_stm32.rs)*)
(* and the clock-backed EmbassyTimeTimer (src/src/impl_embassy_time.rs).    *)
(*                                                                         *)
(* Numbers.  TLC's integers are 32-bit signed, while the code computes in  *)
(* u16, u32 and u64.  A value that may pass 2^31 is held as a sequence of  *)
(* 16-bit words, least significant first: two words are a u32, four a u64. *)
(* Small values (the counter, the prescaler, the clock frequency) are      *)
(* plain integers.                                                         *)
(***************************************************************************)
EXTENDS Integers, Sequences, FiniteSets, TLC

VARIABLES
    checks,     \* the build has overflow-checks on (debug) or off (release)
    clk,        \* the timer's input clock in Hz (get_clock_frequency().0)
    regs,       \* the peripheral's registers: CR1 bits, ARR, CNT, SR.UIF, PSC
    pc,         \* where start() is inside its critical section, or "idle"
    ret,        \* what the last query returned, and where it was made
    irq,        \* an interrupt whose handler queries the timer is pending
    started,    \* completed start() calls
    ticks,      \* prescaled clock ticks since the counter was last reset by start()
    events,     \* Tick events since the last start() (bounds the model)
    csTicks,    \* hardware ticks inside the running critical section
    alarm       \* the EmbassyTimeTimer, its clock and the task waiting on it

vars == <<checks, clk, regs, pc, ret, irq, started, ticks, events, csTicks, alarm>>

---------------------------------------------------------------------------
(* Bounds of the model *)

\* Tick events (each a run of consecutive hardware ticks) between two start()s.
MaxTickEvents == 3
\* Hardware ticks that fit into one critical section of start().
MaxCsTicks == 1
\* Completed start() calls after which the model stops re-arming.
MaxStarts == 2
\* Steps of embassy_time's clock.
MaxClockSteps == 2
\* EmbassyTimeTimer::start() calls after new().
MaxRestarts == 1

---------------------------------------------------------------------------
(* Machine arithmetic *)

\* u16::MAX, the value start() writes to ARR and max_ticks() returns.
U16Max == 65535

Base == U16Max + 1

\* The k low words of the non-negative integer n.
RECURSIVE WordsOfInt(_, _)
WordsOfInt(n, k) ==
    IF k = 0 THEN <<>> ELSE <<n % Base>> \o WordsOfInt(n \div Base, k - 1)

\* w padded with zero words, or cut, to k words (`as u64`, `as u32`).
Resize(w, k) == [i \in 1..k |-> IF i <= Len(w) THEN w[i] ELSE 0]

\* w * m for 0 <= m < 2^15, exact: one word longer than w.
RECURSIVE MulWordsFrom(_, _, _, _)
MulWordsFrom(w, m, i, carry) ==
    IF i > Len(w) THEN <<carry>>
    ELSE LET p == w[i] * m + carry
         IN  <<p % Base>> \o MulWordsFrom(w, m, i + 1, p \div Base)

MulWords(w, m) == MulWordsFrom(w, m, 1, 0)

\* One word of a long division by d (0 < d < 2^30), bit by bit from the top:
\* <<remainder, quotient word>>.
RECURSIVE DivBits(_, _, _, _, _)
DivBits(word, bits, rem, q, d) ==
    IF bits = 0 THEN <<rem, q>>
    ELSE LET b == (word \div (2 ^ (bits - 1))) % 2
             r == rem * 2 + b
         IN  IF r >= d THEN DivBits(word, bits - 1, r - d, q * 2 + 1, d)
                       ELSE DivBits(word, bits - 1, r, q * 2, d)

\* floor(w / d) for 0 < d < 2^30, as many words as w; i runs from the top word.
RECURSIVE DivWordsFrom(_, _, _, _)
DivWordsFrom(w, d, i, rem) ==
    IF i = 0 THEN <<>>
    ELSE LET s == DivBits(w[i], 16, rem, 0, d)
         IN  DivWordsFrom(w, d, i - 1, s[1]) \o <<s[2]>>

DivWords(w, d) == DivWordsFrom(w, d, Len(w), 0)

---------------------------------------------------------------------------
(* Results *)

Ok(w) == [kind |-> "Ok", val |-> w]
Err == [kind |-> "Err", val |-> <<0, 0>>]       \* Err(OverflowError)
Panic == [kind |-> "Panic", val |-> <<0, 0>>]   \* the call panics
None == [kind |-> "None", val |-> <<0, 0>>]

IntOf(w) == w[1] + w[2] * Base            \* a two-word value below 2^31
OkInt(n) == Ok(WordsOfInt(n, 2))

---------------------------------------------------------------------------
(* The timer peripheral (upcounting, as the STM32 reference manual has it) *)

\* An update event: the preloaded ARR becomes the active one, and in
\* one-pulse mode the counter stops (CEN is cleared).
UpdateEvent(h) ==
    [h EXCEPT !.shadow = h.arr, !.cen = IF h.opm THEN FALSE ELSE h.cen]

\* The counter passes its active reload value: it restarts from 0 and, unless
\* updates are disabled, raises UIF with an update event.
Overflow(h) ==
    LET z == [h EXCEPT !.cnt = 0]
    IN  IF h.udis THEN z ELSE [UpdateEvent(z) EXCEPT !.uif = TRUE]

\* d prescaled clock ticks reach the counter.
RECURSIVE Advance(_, _)
Advance(h, d) ==
    IF ~h.cen \/ d = 0 THEN h
    ELSE IF h.cnt + d <= h.shadow THEN [h EXCEPT !.cnt = h.cnt + d]
    ELSE Advance(Overflow(h), d - (h.shadow - h.cnt + 1))

\* A slip in the closure: set_udis(true), which disables update events.
ModifyCr1_UpdatesDisabled(h) ==
    [h EXCEPT !.urs = TRUE, !.opm = TRUE, !.udis = TRUE]

\* cr1().modify: URS = COUNTER_ONLY, OPM on, UDIS off.
ModifyCr1(h) == [h EXCEPT !.urs = TRUE, !.opm = TRUE, !.udis = FALSE]

\* The reload value one short: set_arr(u16::MAX - 1).
WriteArr_OneShort(h) ==
    [h EXCEPT !.arr = U16Max - 1,
              !.shadow = IF h.arpe THEN h.shadow ELSE U16Max - 1]

\* arr().write(u16::MAX): buffered behind the preload register when ARPE is set.
WriteArr(h) ==
    [h EXCEPT !.arr = U16Max, !.shadow = IF h.arpe THEN h.shadow ELSE U16Max]

\* start() without the forced update.
WriteUg_Skipped(h) == h

\* egr().write(UG): the counter is re-initialised; with updates enabled this is
\* an update event, which raises UIF only when URS lets software updates do so.
WriteUg(h) ==
    LET z == [h EXCEPT !.cnt = 0]
    IN  IF h.udis THEN z
        ELSE [UpdateEvent(z) EXCEPT !.uif = IF h.urs THEN h.uif ELSE TRUE]

\* start() without the write that clears UIF.
ClearUif_Skipped(h) == h

\* sr().modify(UIF = false)
ClearUif(h) == [h EXCEPT !.uif = FALSE]

\* low_level::Timer::reset: CNT = 0
ResetCnt(h) == [h EXCEPT !.cnt = 0]

\* low_level::Timer::start: CEN = 1
EnableCnt(h) == [h EXCEPT !.cen = TRUE]

---------------------------------------------------------------------------
(* impl Timer for embassy_stm32::timer::low_level::Timer: the queries *)

\* a * f1 * f2 in `words` words (u32: 2, u64: 4): a panic with overflow-checks,
\* the wrapped product without.
MulChecked(a, f1, f2, words, chk) ==
    LET p == MulWords(MulWords(a, f1), f2)
        over == \E i \in (words + 1)..Len(p) : p[i] # 0
    IN  IF over /\ chk THEN Panic ELSE Ok(Resize(p, words))

\* a / d: a panic when d is 0.
DivChecked(a, d) == IF d = 0 THEN Panic ELSE Ok(DivWords(a, d))

\* get_clock_frequency().0 / (psc().read() + 1) as u32: the sum is a u16 sum.
tickrate(h, clock, chk) ==
    LET sum == h.psc + 1
        over == sum > U16Max
    IN  IF over /\ chk THEN Panic
        ELSE DivChecked(WordsOfInt(clock, 2), sum % Base)

elapsed_ticks(h) == IF h.uif THEN Err ELSE OkInt(h.cnt)

max_ticks == OkInt(U16Max)

\* ((t as u64 * 1_000_000u64) / tickrate() as u64) as u32
MicrosOf(t, h, clock, chk) ==
    LET p == MulChecked(Resize(t, 4), 1000, 1000, 4, chk)
        r == tickrate(h, clock, chk)
    IN  IF p.kind = "Panic" \/ r.kind = "Panic" THEN Panic
        ELSE LET q == DivChecked(p.val, IntOf(r.val))
             IN  IF q.kind = "Panic" THEN Panic ELSE Ok(Resize(q.val, 2))

\* The division done before the multiplication: (t / tickrate()) * 1000.
MillisOf_DivideFirst(t, h, clock, chk) ==
    LET r == tickrate(h, clock, chk)
    IN  IF r.kind = "Panic" \/ IntOf(r.val) = 0 THEN Panic
        ELSE MulChecked(DivWords(t, IntOf(r.val)), 1000, 1, 2, chk)

\* (t * 1000) / tickrate(), in u32
MillisOf(t, h, clock, chk) ==
    LET p == MulChecked(t, 1000, 1, 2, chk)
        r == tickrate(h, clock, chk)
    IN  IF p.kind = "Panic" \/ r.kind = "Panic" THEN Panic
        ELSE DivChecked(p.val, IntOf(r.val))

\* t / tickrate(), in u32
SecsOf(t, h, clock, chk) ==
    LET r == tickrate(h, clock, chk)
    IN  IF r.kind = "Panic" THEN Panic ELSE DivChecked(t, IntOf(r.val))

\* `self.elapsed_ticks()?` comes first: an overflow returns before tickrate().
elapsed_micros(h, clock, chk) ==
    LET t == elapsed_ticks(h)
    IN  IF t.kind = "Err" THEN Err ELSE MicrosOf(t.val, h, clock, chk)

elapsed_millis(h, clock, chk) ==
    LET t == elapsed_ticks(h)
    IN  IF t.kind = "Err" THEN Err ELSE MillisOf(t.val, h, clock, chk)

elapsed_secs(h, clock, chk) ==
    LET t == elapsed_ticks(h)
    IN  IF t.kind = "Err" THEN Err ELSE SecsOf(t.val, h, clock, chk)

max_micros(h, clock, chk) == MicrosOf(max_ticks.val, h, clock, chk)

max_millis(h, clock, chk) == MillisOf(max_ticks.val, h, clock, chk)

max_secs(h, clock, chk) == SecsOf(max_ticks.val, h, clock, chk)

QueryOps ==
    {"tickrate", "elapsed_ticks", "elapsed_micros", "elapsed_millis",
     "elapsed_secs", "max_micros", "max_millis", "max_secs", "max_ticks"}

Call(op, h, clock, chk) ==
    CASE op = "tickrate" -> tickrate(h, clock, chk)
      [] op = "elapsed_ticks" -> elapsed_ticks(h)
      [] op = "elapsed_micros" -> elapsed_micros(h, clock, chk)
      [] op = "elapsed_millis" -> elapsed_millis(h, clock, chk)
      [] op = "elapsed_secs" -> elapsed_secs(h, clock, chk)
      [] op = "max_micros" -> max_micros(h, clock, chk)
      [] op = "max_millis" -> max_millis(h, clock, chk)
      [] op = "max_secs" -> max_secs(h, clock, chk)
      [] op = "max_ticks" -> max_ticks

---------------------------------------------------------------------------
(* embassy_time as EmbassyTimeTimer uses it.  Instants and durations are u64
   tick counts: four words, with six-word intermediates. *)

U64Max == <<U16Max, U16Max, U16Max, U16Max>>
U32Max == <<U16Max, U16Max>>

Min(a, b) == IF a < b THEN a ELSE b

RECURSIVE Pow(_, _)
Pow(b, e) == IF e = 0 THEN 1 ELSE b * Pow(b, e - 1)

\* a + b, one word longer than the operands.
RECURSIVE AddWordsFrom(_, _, _, _)
AddWordsFrom(a, b, i, carry) ==
    IF i > Len(a) THEN <<carry>>
    ELSE LET t == a[i] + b[i] + carry
         IN  <<t % Base>> \o AddWordsFrom(a, b, i + 1, t \div Base)

AddWords(a, b) == AddWordsFrom(a, b, 1, 0)

\* a >= b for operands of one length, from the top word down.
RECURSIVE GeqWordsFrom(_, _, _)
GeqWordsFrom(a, b, i) ==
    IF i = 0 THEN TRUE
    ELSE IF a[i] # b[i] THEN a[i] > b[i]
    ELSE GeqWordsFrom(a, b, i - 1)

GeqWords(a, b) == GeqWordsFrom(a, b, Len(a))

\* The most factors b (2 or 5) one word-by-integer step takes: b^Chunk(b) < 2^15.
Chunk(b) == IF b = 2 THEN 14 ELSE 6

\* w * b^e, kept six words wide (exact below 2^96).
RECURSIVE MulPow(_, _, _)
MulPow(w, b, e) ==
    IF e = 0 THEN Resize(w, 6)
    ELSE LET c == Min(e, Chunk(b))
         IN  MulPow(Resize(MulWords(w, Pow(b, c)), 6), b, e - c)

\* floor(w / b^e)
RECURSIVE DivPow(_, _, _)
DivPow(w, b, e) ==
    IF e = 0 THEN w
    ELSE LET c == Min(e, Chunk(b))
         IN  DivPow(DivWords(w, Pow(b, c)), b, e - c)

\* A six-word value as the u64 the code holds: a panic with overflow-checks
\* when it does not fit, the wrapped value without.
AsU64(w, chk) ==
    IF (w[5] # 0 \/ w[6] # 0) /\ chk THEN Panic ELSE Ok(Resize(w, 4))

\* embassy_time::TICK_HZ = 2^two * 5^five: 1 MHz (the default), 32768 Hz and
\* 5_242_880_000 Hz, the fastest rate embassy-time offers.
TickRates ==
    {[two |-> 6, five |-> 6], [two |-> 15, five |-> 0], [two |-> 23, five |-> 4]}

\* The units: 10^UnitExp(u) of them make a second.
Units == {"ticks", "micros", "millis", "secs"}
UnitExp(u) == CASE u = "secs" -> 0 [] u = "millis" -> 3 [] u = "micros" -> 6

\* Duration::from_ticks / from_micros / from_millis / from_secs (value as u64):
\* secs * TICK_HZ, and for millis and micros
\* div_ceil(value * (TICK_HZ / GCD), unit / GCD) with GCD = gcd(TICK_HZ, unit).
DurationFrom(u, value, hz, chk) ==
    IF u = "ticks" THEN Ok(Resize(value, 4))
    ELSE LET e == UnitExp(u)
             g2 == Min(hz.two, e)
             g5 == Min(hz.five, e)
             den == Pow(2, e - g2) * Pow(5, e - g5)
             num == AsU64(MulPow(MulPow(value, 2, hz.two - g2), 5, hz.five - g5), chk)
         IN  IF num.kind = "Panic" THEN Panic
             ELSE LET sum == AsU64(Resize(AddWords(num.val, WordsOfInt(den - 1, 4)), 6), chk)
                  IN  IF sum.kind = "Panic" THEN Panic
                      ELSE Ok(DivWords(sum.val, den))

\* Instant + Duration: checked_add(..).expect(..), a panic past u64::MAX.
InstantPlus(t, d) ==
    LET sum == AddWords(t, d)
    IN  IF sum[5] # 0 THEN Panic ELSE Ok(Resize(sum, 4))

\* Instant::MAX.as_micros() / as_millis() / as_secs():
\* ticks * (unit / GCD) / (TICK_HZ / GCD), then try_into().unwrap_or(u32::MAX).
AlarmMax(u, hz, chk) ==
    IF u = "ticks" THEN Ok(U32Max)
    ELSE LET e == UnitExp(u)
             g2 == Min(hz.two, e)
             g5 == Min(hz.five, e)
             num == AsU64(MulPow(MulPow(U64Max, 2, e - g2), 5, e - g5), chk)
         IN  IF num.kind = "Panic" THEN Panic
             ELSE LET q == DivPow(DivPow(num.val, 2, hz.two - g2), 5, hz.five - g5)
                  IN  IF q[3] # 0 \/ q[4] # 0 THEN Ok(U32Max) ELSE Ok(Resize(q, 2))

\* EmbassyTimeTimer::new(): the epoch is Instant::now().  startAt, waited and
\* cancelled record the history the claims speak of: the instant of the last
\* start(), whether the clock moved while the wait was pending, and whether a
\* wait was abandoned since the last start().
NewAlarm(hz) ==
    [hz |-> hz, now |-> <<0, 0, 0, 0>>, epoch |-> <<0, 0, 0, 0>>,
     st |-> "idle", unit |-> "none", value |-> <<0, 0>>,
     deadline |-> <<0, 0, 0, 0>>, out |-> "None",
     startAt |-> <<0, 0, 0, 0>>,
     waited |-> FALSE, cancelled |-> FALSE,
     clockSteps |-> 0, restarts |-> 0]

\* No EmbassyTimeTimer: the value of alarm while the driver is modelled.
AlarmOff == NewAlarm([two |-> 6, five |-> 6])

---------------------------------------------------------------------------
(* The driver on its peripheral: Spec *)

\* Input clocks and prescalers that give tick rates 1, 244, 409, 65536,
\* 100000 and 16000000 Hz, and the largest prescaler a 16-bit PSC holds.
Clocks == {65536, 16000000}
Prescalers == {0, 159, U16Max - 1, U16Max}

\* Reload values a previous owner of the peripheral may have left.
Reloads == {999, U16Max}

\* Runs of consecutive hardware ticks between two software steps.
TickRuns == {1, 4294, U16Max}

\* start() without its critical section.
InCriticalSection_Unmasked == FALSE

\* critical_section::with: interrupts are masked from the first register
\* write of start() to the last.
InCriticalSection == pc # "idle"

\* The registers after a peripheral reset: CR1 = 0, ARR = 0xFFFF, CNT = 0, SR = 0.
ResetRegs(p) ==
    [cen |-> FALSE, opm |-> FALSE, urs |-> FALSE, udis |-> FALSE,
     arpe |-> FALSE, uif |-> FALSE, arr |-> U16Max, shadow |-> U16Max,
     cnt |-> 0, psc |-> p]

\* Any register configuration a previous user of the peripheral left behind,
\* at the examples' tick rate (16 MHz / 160 = 100 kHz).
LegacyRegs ==
    {h \in [cen : BOOLEAN, opm : BOOLEAN, urs : BOOLEAN, udis : BOOLEAN,
            arpe : BOOLEAN, uif : BOOLEAN, arr : Reloads, shadow : Reloads,
            cnt : {0, 999}, psc : {159}] : h.arr = h.shadow}

NoRet == [op |-> "none", res |-> None, at |-> "idle", deferred |-> FALSE]

Init ==
    /\ checks \in BOOLEAN
    /\ \/ clk \in Clocks /\ \E p \in Prescalers : regs = ResetRegs(p)
       \/ clk = 16000000 /\ regs \in LegacyRegs
    /\ pc = "idle"
    /\ ret = NoRet
    /\ irq = FALSE
    /\ started = 0
    /\ ticks = 0
    /\ events = 0
    /\ csTicks = 0
    /\ alarm = AlarmOff

\* One step of start()'s critical section.
StartStep(from, to, h) ==
    /\ pc = from
    /\ pc' = to
    /\ regs' = h
    /\ UNCHANGED <<checks, clk, ret, irq, alarm>>

StartCr1 ==
    /\ started < MaxStarts
    /\ ret = NoRet
    /\ StartStep("idle", "arr", ModifyCr1(regs))
    /\ csTicks' = 0
    /\ UNCHANGED <<started, ticks, events>>

StartArr ==
    /\ StartStep("arr", "egr", WriteArr(regs))
    /\ UNCHANGED <<started, ticks, events, csTicks>>

StartEgr ==
    /\ StartStep("egr", "sr", WriteUg(regs))
    /\ UNCHANGED <<started, ticks, events, csTicks>>

StartSr ==
    /\ StartStep("sr", "reset", ClearUif(regs))
    /\ UNCHANGED <<started, ticks, events, csTicks>>

StartReset ==
    /\ StartStep("reset", "enable", ResetCnt(regs))
    /\ ticks' = 0
    /\ events' = 0
    /\ UNCHANGED <<started, csTicks>>

StartEnable ==
    /\ StartStep("enable", "idle", EnableCnt(regs))
    /\ started' = started + 1
    /\ UNCHANGED <<ticks, events, csTicks>>

\* The counter has run past its reload value since the last start() and halted.
Halted == started > 0 /\ ticks > U16Max

\* A run of d hardware ticks.  Inside the critical section only single ticks
\* fit; after an overflow has halted the counter, time still passes.
Tick(d) ==
    /\ regs.cen \/ (pc = "idle" /\ Halted)
    /\ ret = NoRet
    /\ events < MaxTickEvents
    /\ IF InCriticalSection
         THEN d = 1 /\ csTicks < MaxCsTicks /\ csTicks' = csTicks + 1
         ELSE csTicks' = csTicks
    /\ regs' = Advance(regs, d)
    /\ ticks' = IF ticks + d > 2 * Base THEN 2 * Base ELSE ticks + d
    /\ events' = events + 1
    /\ UNCHANGED <<checks, clk, pc, ret, irq, started, alarm>>

\* A query that re-arms on overflow: it clears the flag it reports.
Query_ClearsLatch(op) ==
    /\ ~InCriticalSection
    /\ ret = NoRet
    /\ ret' = [op |-> op, res |-> Call(op, regs, clk, checks), at |-> pc,
               deferred |-> FALSE]
    /\ regs' = IF Call(op, regs, clk, checks) = Err THEN ClearUif(regs) ELSE regs
    /\ UNCHANGED <<checks, clk, pc, irq, started, ticks, events, csTicks, alarm>>

\* A query from the owning task.
Query(op) ==
    /\ ~InCriticalSection
    /\ ret = NoRet
    /\ ret' = [op |-> op, res |-> Call(op, regs, clk, checks), at |-> pc,
               deferred |-> FALSE]
    /\ UNCHANGED <<checks, clk, regs, pc, irq, started, ticks, events, csTicks, alarm>>

\* An interrupt whose handler queries the timer is raised while start() runs.
IrqRaise ==
    /\ InCriticalSection
    /\ ~irq
    /\ irq' = TRUE
    /\ UNCHANGED <<checks, clk, regs, pc, ret, started, ticks, events, csTicks, alarm>>

\* Its handler runs once interrupts are unmasked.
IrqServe(op) ==
    /\ irq
    /\ ~InCriticalSection
    /\ ret = NoRet
    /\ irq' = FALSE
    /\ ret' = [op |-> op, res |-> Call(op, regs, clk, checks), at |-> pc,
               deferred |-> TRUE]
    /\ UNCHANGED <<checks, clk, regs, pc, started, ticks, events, csTicks, alarm>>

\* The caller takes the result of its query.
Return ==
    /\ ret # NoRet
    /\ ret' = NoRet
    /\ UNCHANGED <<checks, clk, regs, pc, irq, started, ticks, events, csTicks, alarm>>

Next ==
    \/ StartCr1
    \/ StartArr
    \/ StartEgr
    \/ StartSr
    \/ StartReset
    \/ StartEnable
    \/ \E d \in TickRuns : Tick(d)
    \/ \E op \in QueryOps : Query(op)
    \/ IrqRaise
    \/ \E op \in {"elapsed_ticks", "elapsed_micros"} : IrqServe(op)
    \/ Return

Spec == Init /\ [][Next]_vars

---------------------------------------------------------------------------
(* Claims about the driver, checked under Spec.  A query's result is in ret,
   and the registers it read are still in regs: every other step waits for
   Return. *)

\* The tick rate the driver reports in this state, when it reports one.
Rate == tickrate(regs, clk, checks)
RateIsPositive == Rate.kind = "Ok" /\ IntOf(Rate.val) > 0

\* The exact value floor(t * factor / rate) for factor = f1 * f2, six words wide.
ExactScaled(t, f1, f2, rate) ==
    DivWords(Resize(MulWords(MulWords(WordsOfInt(t, 2), f1), f2), 6), rate)

\* floor(t * f1 * f2 / R) fits the u32 result and equals it.
IsExact(res, t, f1, f2) ==
    /\ res.kind = "Ok"
    /\ Resize(res.val, 6) = ExactScaled(t, f1, f2, IntOf(Rate.val))

\* C1: for every tick rate R > 0 and every counter value t in 0..65535 with
\* the overflow flag clear, elapsed_micros() returns Ok(floor(t * 1000000 / R))
\* exactly, nothing lost in the product, the quotient or the cast to u32.
C1_ElapsedMicrosExact ==
    (ret.op = "elapsed_micros" /\ ~regs.uif /\ RateIsPositive)
        => IsExact(ret.res, regs.cnt, 1000, 1000)

\* C2: for every tick rate R > 0, max_ticks() is 65535 and max_micros(),
\* max_millis(), max_secs() are floor(max_ticks() * factor / R), nothing lost.
C2_MaxConsistent ==
    /\ ret.op = "max_ticks" => ret.res = OkInt(U16Max)
    /\ (ret.op = "max_micros" /\ RateIsPositive)
           => IsExact(ret.res, U16Max, 1000, 1000)
    /\ (ret.op = "max_millis" /\ RateIsPositive)
           => IsExact(ret.res, U16Max, 1000, 1)
    /\ (ret.op = "max_secs" /\ RateIsPositive)
           => IsExact(ret.res, U16Max, 1, 1)

ElapsedOps == {"elapsed_ticks", "elapsed_micros", "elapsed_millis", "elapsed_secs"}

\* C3: once the counter has run past max_ticks() since the last start(), every
\* elapsed_*() returns OverflowError, however many more ticks and queries
\* follow, until the next start(): the flag stays set and the counter halted.
C3_OverflowLatched ==
    (Halted /\ pc = "idle")
        => /\ regs.uif
           /\ ~regs.cen
           /\ \A op \in ElapsedOps : Call(op, regs, clk, checks) = Err
           /\ ret.op \in ElapsedOps => ret.res = Err

C3_Witness ==
    /\ Halted
    /\ ticks > U16Max + 1
    /\ started = 1
    /\ ret.op = "elapsed_micros"
    /\ ret.res = Err

\* C4: whatever the registers held before, elapsed_ticks() right after start()
\* has returned, before the counter has ticked, is Ok(0): the counter is 0 and
\* the overflow flag is clear.
C4_ZeroAfterStart ==
    (started > 0 /\ pc = "idle" /\ ticks = 0)
        => /\ regs.cnt = 0
           /\ ~regs.uif
           /\ elapsed_ticks(regs) = OkInt(0)
           /\ ret.op = "elapsed_ticks" => ret.res = OkInt(0)

C4_Witness ==
    /\ started = 2
    /\ ticks = 0
    /\ ret.op = "elapsed_ticks"
    /\ ret.res = OkInt(0)

\* What elapsed_ticks() must return in a fully re-armed timer.
ArmedTicks == IF ticks > U16Max THEN Err ELSE OkInt(ticks)

\* C5: a query never runs inside start(): it sees the registers as they were
\* before start() began or as start() leaves them, where the counter counts
\* from the reset and the flag is set only by an overflow since then.  An
\* interrupt raised while start() runs is served after it.
C5_StartAtomic ==
    ret.op # "none"
        => /\ ret.at = "idle"
           /\ (started > 0 /\ ret.op = "elapsed_ticks") => ret.res = ArmedTicks

C5_Witness ==
    /\ ret.deferred
    /\ ret.op = "elapsed_ticks"
    /\ started = 2
    /\ ret.res = OkInt(0)

\* C9: for every clock frequency f and every prescaler p in 0..65535,
\* tickrate() returns floor(f / (p + 1)), p + 1 computed without wraparound.
C9_TickrateAllPrescalers ==
    ret.op = "tickrate" => ret.res = OkInt(clk \div (regs.psc + 1))

\* C10: for every tick rate R > 0 and counter value t, elapsed_millis() is
\* Ok(floor(t * 1000 / R)) and elapsed_secs() is Ok(floor(t / R)), nothing
\* lost; and elapsed_micros/millis/secs return OverflowError exactly when
\* elapsed_ticks() does in the same state.
C10_MillisSecs ==
    /\ (ret.op = "elapsed_millis" /\ ~regs.uif /\ RateIsPositive)
           => IsExact(ret.res, regs.cnt, 1000, 1)
    /\ (ret.op = "elapsed_secs" /\ ~regs.uif /\ RateIsPositive)
           => IsExact(ret.res, regs.cnt, 1, 1)
    /\ ret.op \in {"elapsed_micros", "elapsed_millis", "elapsed_secs"}
           => (ret.res = Err <=> elapsed_ticks(regs) = Err)

C10_Witness ==
    /\ ret.op = "elapsed_millis"
    /\ regs.cnt = U16Max
    /\ IntOf(Rate.val) = 100000
    /\ ret.res = OkInt(655)

\* C11: max_ticks() is the inclusive boundary: after start() and n hardware
\* ticks with no other start(), elapsed_ticks() is Ok(n) for every n up to
\* 65535 = max_ticks() and OverflowError for 65536 and every larger n; an Ok
\* value is never above max_ticks().
C11_MaxTicksBoundary ==
    /\ (started > 0 /\ pc = "idle" /\ ticks <= IntOf(max_ticks.val))
           => /\ elapsed_ticks(regs) = OkInt(ticks)
              /\ ret.op = "elapsed_ticks" => ret.res = OkInt(ticks)
    /\ (started > 0 /\ pc = "idle" /\ ticks > IntOf(max_ticks.val))
           => /\ elapsed_ticks(regs) = Err
              /\ ret.op = "elapsed_ticks" => ret.res = Err
    /\ (ret.op = "elapsed_ticks" /\ ret.res.kind = "Ok")
           => IntOf(ret.res.val) <= IntOf(max_ticks.val)

\* The scenario of 65536 ticks: one tick after Ok(65535) would have been
\* returned, the query reports the overflow.
C11_Witness ==
    /\ started = 1
    /\ ticks = U16Max + 1
    /\ regs.cnt = 0
    /\ ret.op = "elapsed_ticks"
    /\ ret.res = Err

\* The order of start()'s register accesses.
StartOrder ==
    {<<"idle", "arr">>, <<"arr", "egr">>, <<"egr", "sr">>, <<"sr", "reset">>,
     <<"reset", "enable">>, <<"enable", "idle">>}

\* The control bits start() sets: update source counter-only, one-pulse mode
\* on, updates not disabled.
Cr1Set(h) == h.urs /\ h.opm /\ ~h.udis

\* The registers as start() leaves them.
PostStart(h) ==
    /\ Cr1Set(h)
    /\ h.arr = U16Max
    /\ h.shadow = U16Max
    /\ ~h.uif
    /\ h.cen

\* C14: start() runs in one critical section, in this order: it sets update
\* source = counter-only, one-pulse mode on and update-disable off; writes
\* auto-reload = 65535; forces an update (which loads the reload value and
\* does not raise the flag); clears the overflow flag; resets the counter to
\* 0; enables counting.  Whatever the registers held before, when it returns
\* the update source is counter-only, one-pulse mode is on, the reload value
\* is 65535, the overflow flag is clear and the counter is enabled.
C14_StartSequence ==
    /\ [][pc' # pc => <<pc, pc'>> \in StartOrder]_vars
    /\ [][(pc = "idle" /\ pc' = "arr") => Cr1Set(regs')]_vars
    /\ [][(pc = "arr" /\ pc' = "egr") => (Cr1Set(regs') /\ regs'.arr = U16Max)]_vars
    /\ [][(pc = "egr" /\ pc' = "sr")
            => (regs'.shadow = U16Max /\ regs'.cnt = 0 /\ regs'.uif = regs.uif)]_vars
    /\ [][(pc = "sr" /\ pc' = "reset") => ~regs'.uif]_vars
    /\ [][(pc = "reset" /\ pc' = "enable") => (regs'.cnt = 0 /\ ~regs'.uif)]_vars
    /\ [][(pc = "enable" /\ pc' = "idle") => PostStart(regs')]_vars
    /\ [](InCriticalSection => ret.op = "none")
    /\ []((started > 0 /\ pc = "idle")
            => (Cr1Set(regs) /\ regs.arr = U16Max /\ regs.shadow = U16Max))

\* start() has returned on a peripheral left with ARR preloading on.
C14_Witness ==
    /\ started = 1
    /\ pc = "idle"
    /\ ticks = 0
    /\ regs.arpe
    /\ PostStart(regs)
    /\ regs.cnt = 0

---------------------------------------------------------------------------
(* EmbassyTimeTimer and the task awaiting it: SpecAlarm *)

\* The waits a caller asks for: 4_000_000_000 is <<10240, 61035>>, and
\* 3_518_437_208 = <<5976, 53687>> is max_secs() at 5_242_880_000 Hz.
WaitRequests ==
    {<<"ticks", <<0, 0>>>>, <<"ticks", <<100, 0>>>>, <<"micros", <<1, 0>>>>,
     <<"millis", <<100, 0>>>>, <<"millis", U32Max>>, <<"secs", <<1, 0>>>>,
     <<"secs", <<5976, 53687>>>>, <<"secs", <<10240, 61035>>>>}

\* The disturber of examples/std/src/bin/disturbed-select.rs fires after
\* 100 ms to 1 s: 200_000 microseconds here.
DisturbMicros == <<3392, 3>>

\* A wait that measures from the moment of the call, as Timer::after would.
WaitEpoch_FromNow(a) == a.now

\* get_instant(): a wait reads the stored epoch and leaves it as it is.
WaitEpoch(a) == a.epoch

\* wait_until_<unit>(value) up to its .await: the deadline is computed and the
\* Timer future polled once.  embassy_time's Timer returns Pending on its first
\* poll, whatever the deadline.
wait_until(a, u, value, chk) ==
    LET called == [a EXCEPT !.unit = u, !.value = value, !.waited = FALSE]
        dur == DurationFrom(u, value, a.hz, chk)
        at == IF dur.kind = "Panic" THEN Panic ELSE InstantPlus(WaitEpoch(a), dur.val)
    IN  IF at.kind = "Panic" THEN [called EXCEPT !.out = "Panic"]
        ELSE [called EXCEPT !.st = "pending", !.deadline = at.val, !.out = "None"]

\* Timer::poll after the first: Ready once Instant::now() has reached the deadline.
Expired(a) == GeqWords(a.now, a.deadline)

driverVars == <<clk, regs, pc, ret, irq, started, ticks, events, csTicks>>

InitAlarm ==
    /\ checks \in BOOLEAN
    /\ clk = 16000000
    /\ regs = ResetRegs(0)
    /\ pc = "idle"
    /\ ret = NoRet
    /\ irq = FALSE
    /\ started = 0
    /\ ticks = 0
    /\ events = 0
    /\ csTicks = 0
    /\ \E hz \in TickRates : alarm = NewAlarm(hz)

\* The task is between calls: it has not panicked, is not inside a wait and
\* has taken the result of the last one.
Ready == alarm.st = "idle" /\ alarm.out = "None"

\* EmbassyTimeTimer::start(): the epoch becomes Instant::now().
AlarmStart ==
    /\ Ready
    /\ alarm.restarts < MaxRestarts
    /\ alarm' = [alarm EXCEPT !.epoch = alarm.now, !.startAt = alarm.now,
                              !.cancelled = FALSE,
                              !.restarts = alarm.restarts + 1]
    /\ UNCHANGED <<checks, driverVars>>

WaitCall(u, value) ==
    /\ Ready
    /\ alarm' = wait_until(alarm, u, value, checks)
    /\ UNCHANGED <<checks, driverVars>>

\* The executor polls the woken task: the wait returns Ok(()).
WaitWake ==
    /\ alarm.st = "pending"
    /\ Expired(alarm)
    /\ alarm' = [alarm EXCEPT !.st = "idle", !.out = "Ok"]
    /\ UNCHANGED <<checks, driverVars>>

\* select() returns for the other future and drops the wait.
WaitCancel ==
    /\ alarm.st = "pending"
    /\ alarm' = [alarm EXCEPT !.st = "idle", !.out = "Cancelled", !.cancelled = TRUE]
    /\ UNCHANGED <<checks, driverVars>>

\* The caller goes on with the result of the wait.
WaitReturn ==
    /\ alarm.out \in {"Ok", "Cancelled"}
    /\ alarm' = [alarm EXCEPT !.out = "None", !.unit = "none", !.value = <<0, 0>>,
                              !.deadline = <<0, 0, 0, 0>>, !.waited = FALSE]
    /\ UNCHANGED <<checks, driverVars>>

\* The clock may move while the task is between calls or suspended in a wait.
ClockRuns == alarm.out = "None" /\ alarm.clockSteps < MaxClockSteps

ClockTo(t) ==
    /\ alarm' = [alarm EXCEPT !.now = t, !.clockSteps = alarm.clockSteps + 1,
                              !.waited = (alarm.st = "pending")]
    /\ UNCHANGED <<checks, driverVars>>

\* The clock moves by one tick.
ClockTick ==
    /\ ClockRuns
    /\ LET t == InstantPlus(alarm.now, <<1, 0, 0, 0>>)
       IN  t.kind = "Ok" /\ ClockTo(t.val)

\* The clock moves by the disturber's delay while the select() is pending.
ClockDisturb ==
    /\ ClockRuns
    /\ alarm.st = "pending"
    /\ LET d == DurationFrom("micros", DisturbMicros, alarm.hz, FALSE)
           t == InstantPlus(alarm.now, d.val)
       IN  t.kind = "Ok" /\ ClockTo(t.val)

\* The clock reaches the deadline of the pending wait.
ClockDeadline ==
    /\ ClockRuns
    /\ alarm.st = "pending"
    /\ ~Expired(alarm)
    /\ ClockTo(alarm.deadline)

NextAlarm ==
    \/ AlarmStart
    \/ \E r \in WaitRequests : WaitCall(r[1], r[2])
    \/ WaitWake
    \/ WaitCancel
    \/ WaitReturn
    \/ ClockTick
    \/ ClockDisturb
    \/ ClockDeadline

SpecAlarm == InitAlarm /\ [][NextAlarm]_vars

---------------------------------------------------------------------------
(* Claims about the alarm *)

\* A call of wait_until_<unit> has been made and its outcome not yet taken.
InWait == alarm.unit # "none"

\* The value of the wait is above max_<unit>(), where max_<unit>() returns.
AboveMax(a, chk) ==
    LET m == AlarmMax(a.unit, a.hz, chk)
    IN  m.kind = "Ok" /\ ~GeqWords(m.val, a.value)

\* C6: for each unit, wait_until_<unit>(value) with value greater than
\* max_<unit>() returns OverflowError at once: the task is not suspended, does
\* not panic and does not wait for a truncated value.
C6_OutOfRangeFails ==
    (InWait /\ AboveMax(alarm, checks)) => (alarm.out = "Err" /\ alarm.st = "idle")

\* C7: no step but start() changes the stored epoch, and no step of a wait
\* (call, wake-up, abandonment, return) moves the clock; the epoch is the
\* instant of the last start(); a suspended wait has the deadline
\* last start() + Duration::from_<unit>(value), and a wait that returned Ok did
\* so with the clock at or past that deadline, whatever was abandoned before.
C7_WaitKeepsEpoch ==
    /\ [][alarm'.restarts = alarm.restarts => alarm'.epoch = alarm.epoch]_vars
    /\ [][(alarm'.st # alarm.st \/ alarm'.out # alarm.out) => alarm'.now = alarm.now]_vars
    /\ [](/\ alarm.epoch = alarm.startAt
          /\ (alarm.st = "pending" \/ alarm.out = "Ok") =>
                 LET d == DurationFrom(alarm.unit, alarm.value, alarm.hz, checks)
                 IN  /\ d.kind = "Ok"
                     /\ InstantPlus(alarm.startAt, d.val) = Ok(alarm.deadline)
          /\ alarm.out = "Ok" => GeqWords(alarm.now, alarm.deadline))

\* A wait_until_millis(100) that follows an abandoned wait returns Ok without
\* the clock moving, the 100 ms having passed since start().
C7_Witness ==
    /\ alarm.out = "Ok"
    /\ alarm.unit = "millis"
    /\ alarm.value = <<100, 0>>
    /\ alarm.cancelled
    /\ ~alarm.waited
    /\ alarm.now # alarm.startAt
    /\ alarm.epoch = alarm.startAt

\* The time from the last start() to now is at least value units:
\* now * unit >= startAt * unit + value * TICK_HZ, unit being the number of
\* units in a second (for ticks: now >= startAt + value).
Reached(a) ==
    LET tk == a.unit = "ticks"
        e == IF tk THEN 0 ELSE UnitExp(a.unit)
        h2 == IF tk THEN 0 ELSE a.hz.two
        h5 == IF tk THEN 0 ELSE a.hz.five
        scaled(t) == MulPow(MulPow(t, 2, e), 5, e)
    IN  GeqWords(Resize(scaled(a.now), 7),
                 AddWords(scaled(a.startAt), MulPow(MulPow(a.value, 2, h2), 5, h5)))

\* C8: wait_until_<unit>(value) returns Ok(()) only when the time since the
\* last start() is at least value in that unit, and it is not suspended when
\* that time has already passed at the call.
C8_WaitReachesValue ==
    /\ alarm.out = "Ok" => Reached(alarm)
    /\ (alarm.st = "pending" /\ ~alarm.waited) => ~Reached(alarm)

---------------------------------------------------------------------------
(* A wait under a clock that keeps running: SpecWait *)

\* The time driver's alarm: the clock arrives at the deadline of the suspended
\* wait, however far away it is.
ClockReach ==
    /\ alarm.out = "None"
    /\ alarm.st = "pending"
    /\ ~Expired(alarm)
    /\ alarm' = [alarm EXCEPT !.now = alarm.deadline, !.waited = TRUE]
    /\ UNCHANGED <<checks, driverVars>>

NextWait ==
    \/ AlarmStart
    \/ \E r \in WaitRequests : WaitCall(r[1], r[2])
    \/ WaitWake
    \/ WaitCancel
    \/ WaitReturn
    \/ ClockReach

\* The clock does not stop short of a deadline, and the executor polls a task
\* whose timer has expired.
SpecWait ==
    /\ InitAlarm
    /\ [][NextWait]_vars
    /\ WF_vars(ClockReach)
    /\ WF_vars(WaitWake)

\* The value of the wait is at most max_<unit>().
InRange(a, chk) ==
    LET m == AlarmMax(a.unit, a.hz, chk)
    IN  m.kind = "Ok" /\ GeqWords(m.val, a.value)

\* C12: a wait_until_<unit>(value) called with value at most max_<unit>()
\* returns Ok(()) in the end, unless it is abandoned first.
C12_InRangeWaitCompletes ==
    (InWait /\ InRange(alarm, checks)) ~> (alarm.out \in {"Ok", "Cancelled"})

---------------------------------------------------------------------------
(* elapsed_ticks() read by read, the counter running meanwhile: SpecRace *)

\* sr().read().uif(): the first read of elapsed_ticks().  A set flag returns
\* Err(OverflowError); a clear one leaves the counter to be read.  `from` keeps
\* the ticks elapsed at the call.
ReadSr ==
    /\ ~InCriticalSection
    /\ ret = NoRet
    /\ ret' = [op |-> "elapsed_ticks", res |-> IF regs.uif THEN Err ELSE None,
               at |-> pc, deferred |-> FALSE, from |-> ticks]
    /\ UNCHANGED <<checks, clk, regs, pc, irq, started, ticks, events, csTicks, alarm>>

\* The query has read a clear flag and not yet the counter.
BetweenReads == ret.op = "elapsed_ticks" /\ ret.res = None

\* The counter runs on between the two reads: the timer does not wait for the
\* processor, and an interrupt may keep the task from its second read.
TickBetween(d) ==
    /\ BetweenReads
    /\ regs.cen
    /\ events < MaxTickEvents
    /\ regs' = Advance(regs, d)
    /\ ticks' = IF ticks + d > 2 * Base THEN 2 * Base ELSE ticks + d
    /\ events' = events + 1
    /\ UNCHANGED <<checks, clk, pc, ret, irq, started, csTicks, alarm>>

\* Ok(cnt().read().cnt() as u32): the second read.
ReadCnt ==
    /\ BetweenReads
    /\ ret' = [ret EXCEPT !.res = OkInt(regs.cnt)]
    /\ UNCHANGED <<checks, clk, regs, pc, irq, started, ticks, events, csTicks, alarm>>

\* The caller takes the result of a finished query.
QueryDone == ~BetweenReads /\ Return

NextRace ==
    \/ StartCr1
    \/ StartArr
    \/ StartEgr
    \/ StartSr
    \/ StartReset
    \/ StartEnable
    \/ \E d \in TickRuns : Tick(d)
    \/ ReadSr
    \/ \E d \in TickRuns : TickBetween(d)
    \/ ReadCnt
    \/ QueryDone

SpecRace == Init /\ [][NextRace]_vars

\* C13: with the counter ticking during the query, every Ok(v) of
\* elapsed_ticks() after a start() is the number of ticks elapsed since that
\* start() at some instant between the call and the return: v lies between
\* the ticks elapsed at the call and those elapsed at the return.  An overflow
\* between the two reads therefore never yields Ok of the wrapped counter,
\* and successive results within an epoch do not decrease.
C13_TicksLinearizable ==
    (started > 0 /\ ret.op = "elapsed_ticks" /\ ret.res.kind = "Ok")
        => /\ ret.from <= IntOf(ret.res.val)
           /\ IntOf(ret.res.val) <= ticks

---------------------------------------------------------------------------
(* The queries of both timers: SpecQuery *)

\* a - b for a >= b, operands of one length.
RECURSIVE SubWordsFrom(_, _, _, _)
SubWordsFrom(a, b, i, borrow) ==
    IF i > Len(a) THEN << >>
    ELSE LET t == a[i] - b[i] - borrow
         IN  <<t % Base>> \o SubWordsFrom(a, b, i + 1, IF t < 0 THEN 1 ELSE 0)

SubWords(a, b) == SubWordsFrom(a, b, 1, 0)

\* Duration::as_ticks / as_micros / as_millis / as_secs:
\* ticks * (unit / GCD) / (TICK_HZ / GCD), in u64.
DurationAs(t, u, hz, chk) ==
    IF u = "ticks" THEN Ok(t)
    ELSE LET e == UnitExp(u)
             g2 == Min(hz.two, e)
             g5 == Min(hz.five, e)
             num == AsU64(MulPow(MulPow(t, 2, e - g2), 5, e - g5), chk)
         IN  IF num.kind = "Panic" THEN Panic
             ELSE Ok(DivPow(DivPow(num.val, 2, hz.two - g2), 5, hz.five - g5))

\* u32::try_from(self.get_instant().elapsed().as_<unit>()).map_err(|_| OverflowError)
TimeElapsed(a, u, chk) ==
    LET v == DurationAs(SubWords(a.now, a.epoch), u, a.hz, chk)
    IN  IF v.kind = "Panic" THEN Panic
        ELSE IF v.val[3] # 0 \/ v.val[4] # 0 THEN Err
        ELSE Ok(Resize(v.val, 2))

\* embassy_time::TICK_HZ.try_into().unwrap()
TimeTickrate(hz) ==
    LET w == MulPow(MulPow(<<1, 0>>, 2, hz.two), 5, hz.five)
    IN  IF \E i \in 3..6 : w[i] # 0 THEN Panic ELSE Ok(Resize(w, 2))

\* The Timer methods of EmbassyTimeTimer.
TimeCall(op, a, chk) ==
    CASE op = "tickrate" -> TimeTickrate(a.hz)
      [] op = "elapsed_ticks" -> TimeElapsed(a, "ticks", chk)
      [] op = "elapsed_micros" -> TimeElapsed(a, "micros", chk)
      [] op = "elapsed_millis" -> TimeElapsed(a, "millis", chk)
      [] op = "elapsed_secs" -> TimeElapsed(a, "secs", chk)
      [] op = "max_micros" -> AlarmMax("micros", a.hz, chk)
      [] op = "max_millis" -> AlarmMax("millis", a.hz, chk)
      [] op = "max_secs" -> AlarmMax("secs", a.hz, chk)
      [] op = "max_ticks" -> AlarmMax("ticks", a.hz, chk)

\* A program on a host, as the std examples: no timer peripheral and no
\* peripheral clock (clk = 0), an EmbassyTimeTimer just constructed.
InitHost ==
    /\ checks \in BOOLEAN
    /\ clk = 0
    /\ regs = ResetRegs(0)
    /\ pc = "idle"
    /\ ret = NoRet
    /\ irq = FALSE
    /\ started = 0
    /\ ticks = 0
    /\ events = 0
    /\ csTicks = 0
    /\ \E hz \in TickRates : alarm = NewAlarm(hz)

\* A query of the EmbassyTimeTimer.
TimeQuery(op) ==
    /\ ret' = [op |-> op, res |-> TimeCall(op, alarm, checks), at |-> pc,
               deferred |-> FALSE]
    /\ UNCHANGED <<checks, clk, regs, pc, irq, started, ticks, events, csTicks, alarm>>

\* The program sleeps for 65536 seconds, more than u32::MAX microseconds.
ClockSleep ==
    /\ ClockRuns
    /\ LET d == DurationFrom("secs", <<0, 1>>, alarm.hz, FALSE)
           t == InstantPlus(alarm.now, d.val)
       IN  t.kind = "Ok" /\ ClockTo(t.val)

\* The program runs on the microcontroller, or on a host between two calls.
OnChip == clk # 0
OnHost == clk = 0 /\ ret = NoRet

NextQuery ==
    \/ OnChip /\ StartCr1
    \/ OnChip /\ StartArr
    \/ OnChip /\ StartEgr
    \/ OnChip /\ StartSr
    \/ OnChip /\ StartReset
    \/ OnChip /\ StartEnable
    \/ OnChip /\ \E d \in TickRuns : Tick(d)
    \/ OnChip /\ \E op \in QueryOps : Query(op)
    \/ OnChip /\ IrqRaise
    \/ OnChip /\ \E op \in {"elapsed_ticks", "elapsed_micros"} : IrqServe(op)
    \/ OnHost /\ AlarmStart
    \/ OnHost /\ ClockTick
    \/ OnHost /\ ClockSleep
    \/ OnHost /\ \E op \in QueryOps : TimeQuery(op)
    \/ Return

SpecQuery == (Init \/ InitHost) /\ [][NextQuery]_vars

\* A step in which a query returns its result.
QueryStep == ret.op = "none" /\ ret'.op # "none"

\* C15: a query (elapsed_*, tickrate, max_*) changes nothing: the counter, the
\* overflow flag and the control and reload registers of the driver, and the
\* stored epoch of the EmbassyTimeTimer, are after it what they were before,
\* whether it returns Ok or OverflowError; after an OverflowError the flag is
\* still set, and the same query asked again reports the overflow again.
C15_QueriesReadOnly ==
    /\ [][QueryStep => (/\ regs' = regs
                        /\ clk' = clk
                        /\ pc' = pc
                        /\ started' = started
                        /\ ticks' = ticks
                        /\ alarm' = alarm)]_vars
    /\ []((clk # 0 /\ ret.op \in ElapsedOps /\ ret.res = Err)
            => (regs.uif /\ Call(ret.op, regs, clk, checks) = Err))
    /\ []((clk = 0 /\ ret.op \in ElapsedOps /\ ret.res = Err)
            => TimeCall(ret.op, alarm, checks) = Err)

\* elapsed_millis() has reported the overflow of a halted counter, and the
\* flag is still set.
C15_Witness ==
    /\ clk # 0
    /\ ret.op = "elapsed_millis"
    /\ ret.res = Err
    /\ started = 1
    /\ Halted
    /\ regs.uif
    /\ ~regs.cen

====
